---- MODULE Spec2Model ----
(***************************************************************************)
(* Model of the image upload relay of src/app.js (the module that starts   *)
(* at line 158): process start-up, the POST /upload handler, the messaging *)
(* webhook handler and uploadImageToGitHub.  Every await of the source is  *)
(* a point where other requests, the clock and the start-up callback may   *)
(* run; the code between two awaits is one atomic step.                    *)
(***************************************************************************)
EXTENDS Integers, Sequences, FiniteSets, TLC

\* ------------------------------------------------------------------ bounds
NumReqs == 2        \* requests the model delivers
MaxTime == 1        \* Date.now() ranges over 0..MaxTime
MaxPhotos == 2      \* longest photo-size list of an update

Reqs == 1..NumReqs
Times == 0..MaxTime

\* ------------------------------------------------------- values and inputs
NoPath == <<>>
NoSha == <<>>
NoUrl == <<>>
NoFile == ""
NoText == ""
NoChat == 0
NoBytes == 0
NoError == ""
ChatId == 7

requiredEnvVars == {"GITHUB_TOKEN", "REPO_OWNER", "REPO_NAME", "TELEGRAM_TOKEN", "WEBHOOK_URL"}

OriginalNames == {"a.png"}

\* update.message.photo: a list of sizes, each with its own file id
PhotoList(n) == [i \in 1..n |-> i]
PhotoLists == {PhotoList(n) : n \in 0..MaxPhotos}

\* req.file of a POST /upload request: absent, or a file with an original name
UploadInputs ==
    {[kind |-> "upload", file |-> f, hasMessage |-> FALSE, hasPhoto |-> FALSE,
      photo |-> <<>>, text |-> NoText, chat |-> NoChat] : f \in OriginalNames \cup {NoFile}}

\* req.body of a webhook delivery
WebhookInputs ==
    {[kind |-> "webhook", file |-> NoFile, hasMessage |-> FALSE, hasPhoto |-> FALSE,
      photo |-> <<>>, text |-> NoText, chat |-> NoChat]}
    \cup
    {[kind |-> "webhook", file |-> NoFile, hasMessage |-> TRUE, hasPhoto |-> TRUE,
      photo |-> p, text |-> NoText, chat |-> c] : p \in PhotoLists, c \in {NoChat, ChatId}}
    \cup
    {[kind |-> "webhook", file |-> NoFile, hasMessage |-> TRUE, hasPhoto |-> TRUE,
      photo |-> PhotoList(1), text |-> "/start", chat |-> ChatId]}
    \cup
    {[kind |-> "webhook", file |-> NoFile, hasMessage |-> TRUE, hasPhoto |-> FALSE,
      photo |-> <<>>, text |-> t, chat |-> c] :
        t \in {NoText, "/start", "hello"}, c \in {NoChat, ChatId}}

Inputs == UploadInputs \cup WebhookInputs

NoInput ==
    [kind |-> "none", file |-> NoFile, hasMessage |-> FALSE, hasPhoto |-> FALSE,
     photo |-> <<>>, text |-> NoText, chat |-> NoChat]

NoLocals ==
    [staged |-> NoPath, uploadPath |-> NoPath, content |-> NoBytes, sha |-> NoSha,
     fileId |-> 0, imageUrl |-> NoUrl]

NoBody == [imageUrl |-> NoUrl, error |-> NoError]

\* ------------------------------------------------------------------- state
VARIABLES
    missing,          \* the required environment variables that are not set
    credentialValid,  \* whether GITHUB_TOKEN is accepted by the repository host
    server,           \* position of the process: loading, binding, validating, registering, running, exited
    portBound,        \* whether app.listen has bound the port
    startupCalls,     \* the network calls the listen callback has issued, in order
    now,              \* the value Date.now() returns
    fs,               \* the local disk: path -> bytes
    repo,             \* the repository's contents: path -> bytes
    pc,               \* position of each request's handling
    input,            \* req.file / req.body of each request
    loc,              \* the handler's local variables of each request
    raised,           \* the message of the error thrown in each request's handling
    repoCalls,        \* the repository calls each request has made, in order
    sent,             \* the sendMessage calls each request has made, in order
    stagingOps,       \* the staging writes and deletes each request has made, in order
    responses         \* the HTTP responses each request has been given, in order

vars == <<missing, credentialValid, server, portBound, startupCalls, now, fs, repo, pc, input, loc,
          raised, repoCalls, sent, stagingOps, responses>>

procVars == <<missing, credentialValid, server, portBound, startupCalls>>
logVars == <<repoCalls, sent, stagingOps, responses>>

Init ==
    /\ missing \in SUBSET requiredEnvVars
    /\ credentialValid \in BOOLEAN
    /\ server = "loading"
    /\ portBound = FALSE
    /\ startupCalls = <<>>
    /\ now = 0
    /\ fs = <<>>
    /\ repo = <<>>
    /\ pc = [r \in Reqs |-> "idle"]
    /\ input = [r \in Reqs |-> NoInput]
    /\ loc = [r \in Reqs |-> NoLocals]
    /\ raised = [r \in Reqs |-> NoError]
    /\ repoCalls = [r \in Reqs |-> <<>>]
    /\ sent = [r \in Reqs |-> <<>>]
    /\ stagingOps = [r \in Reqs |-> <<>>]
    /\ responses = [r \in Reqs |-> <<>>]

\* ----------------------------------------------------------------- helpers
DateNow == now

Exists(store, p) == p \in DOMAIN store

WriteAt(store, p, b) == [q \in DOMAIN store \cup {p} |-> IF q = p THEN b ELSE store[q]]

RemoveAt(store, p) == [q \in DOMAIN store \ {p} |-> store[q]]

\* the revision id the repository host reports for a file
BlobSha(b) == <<"sha", b>>

\* response.data.content.download_url of a successful write
DownloadUrl(p) == <<"raw">> \o p

\* the process accepts connections once the port is bound and until it exits
Serving == portBound /\ server # "exited"

Log(log, r, e) == [log EXCEPT ![r] = Append(@, e)]

Respond(r, status, body) == Log(responses, r, [status |-> status, body |-> body])

\* the handler moves on to its next await
Continue(r, next) ==
    /\ pc' = [pc EXCEPT ![r] = next]
    /\ UNCHANGED <<raised, responses, server>>

\* the handler answers and returns
Finish(r, status, body) ==
    /\ pc' = [pc EXCEPT ![r] = "done"]
    /\ responses' = Respond(r, status, body)
    /\ UNCHANGED <<raised, server>>

UploadCatchGeneric(r, msg) ==
    /\ raised' = [raised EXCEPT ![r] = msg]
    /\ pc' = [pc EXCEPT ![r] = "done"]
    /\ responses' = Respond(r, 500, [imageUrl |-> NoUrl, error |-> "Internal Server Error"])
    /\ UNCHANGED server

\* catch block of the /upload handler: log, answer 500 with the error's message
UploadCatch(r, msg) ==
    /\ raised' = [raised EXCEPT ![r] = msg]
    /\ pc' = [pc EXCEPT ![r] = "done"]
    /\ responses' = Respond(r, 500, [imageUrl |-> NoUrl, error |-> msg])
    /\ UNCHANGED server

\* catch block of the webhook handler.  `update` is declared with const inside
\* the try block (line 298) and is not in scope in the catch block, so the test
\* of line 327 throws a ReferenceError: the error message is not sent, the
\* staging file is not deleted, no status is sent, and the handler's promise is
\* rejected.  An unhandled rejection ends the process or is only reported,
\* depending on the runtime.
WebhookCatch(r, msg) ==
    /\ raised' = [raised EXCEPT ![r] = msg]
    /\ pc' = [pc EXCEPT ![r] = "rejected"]
    /\ UNCHANGED responses
    /\ \E exits \in BOOLEAN : server' = IF exits THEN "exited" ELSE server

\* an error thrown inside the try block of request r's handler
Throw(r, msg) ==
    IF input[r].kind = "upload" THEN UploadCatch(r, msg) ELSE WebhookCatch(r, msg)

\* --------------------------------------------------------------- start-up
RequiredSettingAbsentTokenOnly(m) == "GITHUB_TOKEN" \in m

\* the loop over requiredEnvVars finds a setting that is not set
RequiredSettingAbsent(m) == \E envVar \in requiredEnvVars : envVar \in m

\* module load: the required settings are checked, then app.listen is called
Startup ==
    /\ server = "loading"
    /\ server' = IF RequiredSettingAbsent(missing) THEN "exited" ELSE "binding"
    /\ UNCHANGED <<missing, credentialValid, portBound, startupCalls, now, fs, repo, pc,
                   input, loc, raised, logVars>>

\* the port is bound and the listen callback starts validateGitHubToken
Listening ==
    /\ server = "binding"
    /\ portBound' = TRUE
    /\ server' = "validating"
    /\ startupCalls' = Append(startupCalls, "GET /user")
    /\ UNCHANGED <<missing, credentialValid, now, fs, repo, pc, input, loc, raised, logVars>>

\* GET /user returns: the process exits on failure, else registers the webhook
validateGitHubToken(ok) ==
    /\ server = "validating"
    /\ ok => credentialValid
    /\ server' = IF ok THEN "registering" ELSE "exited"
    /\ startupCalls' = IF ok THEN Append(startupCalls, "setWebhook") ELSE startupCalls
    /\ UNCHANGED <<missing, credentialValid, portBound, now, fs, repo, pc, input, loc,
                   raised, logVars>>

\* setWebhook returns: the process exits on failure
RegisterWebhook(ok) ==
    /\ server = "registering"
    /\ server' = IF ok THEN "running" ELSE "exited"
    /\ UNCHANGED <<missing, credentialValid, portBound, startupCalls, now, fs, repo, pc,
                   input, loc, raised, logVars>>

\* the clock advances
Tick ==
    /\ server # "exited"
    /\ now < MaxTime
    /\ now' = now + 1
    /\ UNCHANGED <<procVars, fs, repo, pc, input, loc, raised, logVars>>

\* a request arrives at the listening process
Receive(r, in) ==
    /\ Serving
    /\ pc[r] = "idle"
    /\ r > 1 => pc[r - 1] # "idle"
    /\ input' = [input EXCEPT ![r] = in]
    /\ pc' = [pc EXCEPT ![r] = IF in.kind = "upload" THEN "multer" ELSE "webhook"]
    /\ UNCHANGED <<procVars, now, fs, repo, loc, raised, logVars>>

\* ------------------------------------------------------------ POST /upload
\* multer's filename callback names the staged file; without a file part
\* req.file stays undefined and the handler runs at once
MulterFilename(r) ==
    /\ Serving
    /\ pc[r] = "multer"
    /\ IF input[r].file = NoFile
         THEN /\ Continue(r, "handler")
              /\ UNCHANGED loc
         ELSE /\ loc' = [loc EXCEPT ![r].staged = <<"uploads", DateNow, "_", input[r].file>>]
              /\ Continue(r, "multerWrite")
    /\ UNCHANGED <<missing, credentialValid, portBound, startupCalls, now, fs, repo, input, repoCalls,
                   sent, stagingOps>>

\* multer's disk storage finishes writing the staged file, or fails and the
\* framework's error handler answers 500 without running the handler
MulterWrite(r, ok) ==
    /\ Serving
    /\ pc[r] = "multerWrite"
    /\ IF ok
         THEN /\ fs' = WriteAt(fs, loc[r].staged, r)
              /\ stagingOps' = Log(stagingOps, r, [op |-> "write", path |-> loc[r].staged, ok |-> TRUE])
              /\ Continue(r, "handler")
         ELSE /\ stagingOps' = Log(stagingOps, r, [op |-> "write", path |-> loc[r].staged, ok |-> FALSE])
              /\ Finish(r, 500, NoBody)
              /\ UNCHANGED fs
    /\ UNCHANGED <<missing, credentialValid, portBound, startupCalls, now, repo, input, loc, repoCalls, sent>>

NoFileAttachedNever(file) == FALSE

\* the test `!req.file`
NoFileAttached(file) == file = NoFile

\* the handler up to its first await: the 400 answer, or the target path and
\* the start of uploadImageToGitHub
UploadHandler(r) ==
    /\ Serving
    /\ pc[r] = "handler"
    /\ IF NoFileAttached(input[r].file)
         THEN /\ Finish(r, 400, [imageUrl |-> NoUrl, error |-> "No image provided"])
              /\ UNCHANGED loc
         ELSE IF input[r].file = NoFile
           THEN /\ Throw(r, "TypeError")
                /\ UNCHANGED loc
           ELSE /\ loc' = [loc EXCEPT ![r].uploadPath = <<"images", DateNow, "_", input[r].file>>]
                /\ Continue(r, "readFile")
    /\ UNCHANGED <<missing, credentialValid, portBound, startupCalls, now, fs, repo, input, repoCalls,
                   sent, stagingOps>>

\* ------------------------------------------------------ uploadImageToGitHub
\* fs.readFile(imagePath) returns: the payload holds the bytes read
ReadFile(r, ok) ==
    /\ Serving
    /\ pc[r] = "readFile"
    /\ IF ok /\ Exists(fs, loc[r].staged)
         THEN /\ loc' = [loc EXCEPT ![r].content = fs[loc[r].staged]]
              /\ Continue(r, "exists")
         ELSE /\ Throw(r, "readFile failed")
              /\ UNCHANGED loc
    /\ UNCHANGED <<missing, credentialValid, portBound, startupCalls, now, fs, repo, input, repoCalls,
                   sent, stagingOps>>

\* one request to the repository host as a handler's log keeps it: the revision
\* id, bytes and download URL it carried or returned, where it has them
RepoCall(op, path, sha, result, content, url) ==
    [op |-> op, path |-> path, sha |-> sha, result |-> result, content |-> content, url |-> url]

checkFileExistsLenient(answer) == IF answer = "found" THEN "true" ELSE "false"

\* what checkFileExists does with the answer to its query: return true, return
\* false, or rethrow
checkFileExistsResult(answer) ==
    CASE answer = "found" -> "true"
      [] answer = "404" -> "false"
      [] OTHER -> "throw"

\* the existence query of checkFileExists returns: success is true, 404 is
\* false, any other failure is rethrown
checkFileExists(r, answer) ==
    /\ Serving
    /\ pc[r] = "exists"
    /\ answer = "found" => credentialValid /\ Exists(repo, loc[r].uploadPath)
    /\ answer = "404" => credentialValid /\ ~Exists(repo, loc[r].uploadPath)
    /\ repoCalls' = Log(repoCalls, r,
                         RepoCall("exists", loc[r].uploadPath, NoSha, answer, NoBytes, NoUrl))
    /\ CASE checkFileExistsResult(answer) = "true" -> Continue(r, "fetchSha")
         [] checkFileExistsResult(answer) = "false" -> Continue(r, "put")
         [] OTHER -> Throw(r, "Request failed")
    /\ UNCHANGED <<missing, credentialValid, portBound, startupCalls, now, fs, repo, input, loc, sent,
                   stagingOps>>

AttachShaDropped(payloadSha, existingSha) == payloadSha

\* payload.sha = existingFile.data.sha
AttachSha(payloadSha, existingSha) == existingSha

\* the revision fetch returns
FetchSha(r, ok) ==
    /\ Serving
    /\ pc[r] = "fetchSha"
    /\ IF ok /\ credentialValid /\ Exists(repo, loc[r].uploadPath)
         THEN /\ loc' = [loc EXCEPT ![r].sha =
                            AttachSha(@, BlobSha(repo[loc[r].uploadPath]))]
              /\ repoCalls' = Log(repoCalls, r,
                     RepoCall("get", loc[r].uploadPath, BlobSha(repo[loc[r].uploadPath]),
                              "ok", NoBytes, NoUrl))
              /\ Continue(r, "put")
         ELSE /\ repoCalls' = Log(repoCalls, r,
                     RepoCall("get", loc[r].uploadPath, NoSha,
                              IF ok /\ credentialValid THEN "404" ELSE "error", NoBytes, NoUrl))
              /\ Throw(r, "Request failed")
              /\ UNCHANGED loc
    /\ UNCHANGED <<missing, credentialValid, portBound, startupCalls, now, fs, repo, input, sent, stagingOps>>

\* the repository host accepts a write that creates an absent file without a
\* revision id or updates a present file with its current revision id
PutAccepted(p, sha) ==
    IF Exists(repo, p) THEN sha = BlobSha(repo[p]) ELSE sha = NoSha

\* the write returns: it is rejected as a conflict when it reaches the host and
\* is not accepted; on success the handler goes on: /upload deletes the staged
\* file, the webhook sends the confirmation message
PutContent(r, ok) ==
    /\ Serving
    /\ pc[r] = "put"
    /\ IF ok /\ credentialValid /\ PutAccepted(loc[r].uploadPath, loc[r].sha)
         THEN /\ repo' = WriteAt(repo, loc[r].uploadPath, loc[r].content)
              /\ loc' = [loc EXCEPT ![r].imageUrl = DownloadUrl(loc[r].uploadPath)]
              /\ repoCalls' = Log(repoCalls, r,
                     RepoCall("put", loc[r].uploadPath, loc[r].sha, "ok", loc[r].content,
                              DownloadUrl(loc[r].uploadPath)))
              /\ IF input[r].kind = "upload"
                   THEN Continue(r, "unlink")
                   ELSE IF input[r].chat = NoChat
                     THEN Throw(r, "TypeError")
                     ELSE Continue(r, "confirm")
         ELSE /\ repoCalls' = Log(repoCalls, r,
                     RepoCall("put", loc[r].uploadPath, loc[r].sha,
                              IF ok /\ credentialValid THEN "conflict" ELSE "error",
                              loc[r].content, NoUrl))
              /\ Throw(r, "Request failed")
              /\ UNCHANGED <<repo, loc>>
    /\ UNCHANGED <<missing, credentialValid, portBound, startupCalls, now, fs, input, sent, stagingOps>>

UploadUnlinkUncaught(ok) == ok

\* whether the await of fs.unlink(...).catch(...) resolves
UploadUnlinkSettles(ok) == TRUE

WebhookUnlinkSettles(ok) == TRUE

\* fs.unlink of the staged file returns on the success path; the handler answers
Unlink(r, ok) ==
    /\ Serving
    /\ pc[r] = "unlink"
    /\ LET deleted == ok /\ Exists(fs, loc[r].staged) IN
       /\ fs' = IF deleted THEN RemoveAt(fs, loc[r].staged) ELSE fs
       /\ stagingOps' = Log(stagingOps, r, [op |-> "unlink", path |-> loc[r].staged, ok |-> deleted])
       /\ IF input[r].kind = "upload"
            THEN IF UploadUnlinkSettles(deleted)
                   THEN Finish(r, 200, [imageUrl |-> loc[r].imageUrl, error |-> NoError])
                   ELSE Throw(r, "unlink failed")
            ELSE IF WebhookUnlinkSettles(deleted)
                   THEN Finish(r, 200, NoBody)
                   ELSE Throw(r, "unlink failed")
    /\ UNCHANGED <<missing, credentialValid, portBound, startupCalls, now, repo, input, loc, repoCalls, sent>>

\* ------------------------------------------------- POST /webhook/{token}
UpdateKindStartIgnored(update) ==
    IF update.hasMessage /\ update.hasPhoto THEN "photo" ELSE "other"

UpdateKindAnyText(update) ==
    IF update.hasMessage /\ update.hasPhoto THEN "photo"
    ELSE IF update.hasMessage /\ update.text # NoText THEN "start"
    ELSE "other"

\* the shape of the update the handler acts on
UpdateKind(update) ==
    IF update.hasMessage /\ update.hasPhoto THEN "photo"
    ELSE IF update.hasMessage /\ update.text = "/start" THEN "start"
    ELSE "other"

FirstFileId(photo) == photo[1]

\* update.message.photo[update.message.photo.length - 1].file_id
LastFileId(photo) == photo[Len(photo)]

\* the handler up to its first await
Webhook(r) ==
    /\ Serving
    /\ pc[r] = "webhook"
    /\ CASE UpdateKind(input[r]) = "photo" ->
              IF Len(input[r].photo) = 0
                THEN /\ Throw(r, "TypeError")
                     /\ UNCHANGED loc
                ELSE /\ loc' = [loc EXCEPT ![r].fileId = LastFileId(input[r].photo)]
                     /\ Continue(r, "getFile")
         [] UpdateKind(input[r]) = "start" ->
              /\ IF input[r].chat = NoChat
                   THEN Throw(r, "TypeError")
                   ELSE Continue(r, "startSend")
              /\ UNCHANGED loc
         [] OTHER ->
              /\ Finish(r, 200, NoBody)
              /\ UNCHANGED loc
    /\ UNCHANGED <<missing, credentialValid, portBound, startupCalls, now, fs, repo, input, repoCalls,
                   sent, stagingOps>>

\* getFile returns
GetFile(r, ok) ==
    /\ Serving
    /\ pc[r] = "getFile"
    /\ IF ok THEN Continue(r, "download") ELSE Throw(r, "Request failed")
    /\ UNCHANGED <<missing, credentialValid, portBound, startupCalls, now, fs, repo, input, loc, repoCalls,
                   sent, stagingOps>>

\* the download returns: the staging path is named and fs.writeFile starts
Download(r, ok) ==
    /\ Serving
    /\ pc[r] = "download"
    /\ IF ok
         THEN /\ loc' = [loc EXCEPT ![r].staged = <<"temp", DateNow, ".", "jpg">>]
              /\ Continue(r, "writeFile")
         ELSE /\ Throw(r, "Request failed")
              /\ UNCHANGED loc
    /\ UNCHANGED <<missing, credentialValid, portBound, startupCalls, now, fs, repo, input, repoCalls,
                   sent, stagingOps>>

\* fs.writeFile returns: the target path is named and uploadImageToGitHub starts
WriteFile(r, ok) ==
    /\ Serving
    /\ pc[r] = "writeFile"
    /\ stagingOps' = Log(stagingOps, r, [op |-> "write", path |-> loc[r].staged, ok |-> ok])
    /\ IF ok
         THEN /\ fs' = WriteAt(fs, loc[r].staged, r)
              /\ loc' = [loc EXCEPT ![r].uploadPath = <<"images", DateNow, ".", "jpg">>]
              /\ Continue(r, "readFile")
         ELSE /\ Throw(r, "writeFile failed")
              /\ UNCHANGED <<fs, loc>>
    /\ UNCHANGED <<missing, credentialValid, portBound, startupCalls, now, repo, input, repoCalls, sent>>

ConfirmationUrlOmitted(imageUrl) == NoUrl

\* the URL in the text `Image uploaded successfully! URL: ${imageUrl}`
ConfirmationUrl(imageUrl) == imageUrl

\* the confirmation send returns; on success fs.unlink starts
Confirm(r, ok) ==
    /\ Serving
    /\ pc[r] = "confirm"
    /\ sent' = Log(sent, r, [chat |-> input[r].chat, text |-> "uploaded",
                             url |-> ConfirmationUrl(loc[r].imageUrl), ok |-> ok])
    /\ IF ok THEN Continue(r, "unlink") ELSE Throw(r, "Request failed")
    /\ UNCHANGED <<missing, credentialValid, portBound, startupCalls, now, fs, repo, input, loc, repoCalls,
                   stagingOps>>

\* the help send of the /start command returns
StartSend(r, ok) ==
    /\ Serving
    /\ pc[r] = "startSend"
    /\ sent' = Log(sent, r, [chat |-> input[r].chat, text |-> "help", url |-> NoUrl, ok |-> ok])
    /\ IF ok THEN Finish(r, 200, NoBody) ELSE Throw(r, "Request failed")
    /\ UNCHANGED <<missing, credentialValid, portBound, startupCalls, now, fs, repo, input, loc, repoCalls,
                   stagingOps>>

\* ----------------------------------------------------------- specification
\* requests arrive at any time and are handled concurrently
Next ==
    \/ Startup
    \/ Listening
    \/ \E ok \in BOOLEAN : validateGitHubToken(ok)
    \/ \E ok \in BOOLEAN : RegisterWebhook(ok)
    \/ Tick
    \/ \E r \in Reqs, in \in Inputs : Receive(r, in)
    \/ \E r \in Reqs : MulterFilename(r)
    \/ \E r \in Reqs, ok \in BOOLEAN : MulterWrite(r, ok)
    \/ \E r \in Reqs : UploadHandler(r)
    \/ \E r \in Reqs, ok \in BOOLEAN : ReadFile(r, ok)
    \/ \E r \in Reqs, answer \in {"found", "404", "error"} : checkFileExists(r, answer)
    \/ \E r \in Reqs, ok \in BOOLEAN : FetchSha(r, ok)
    \/ \E r \in Reqs, ok \in BOOLEAN : PutContent(r, ok)
    \/ \E r \in Reqs, ok \in BOOLEAN : Unlink(r, ok)
    \/ \E r \in Reqs : Webhook(r)
    \/ \E r \in Reqs, ok \in BOOLEAN : GetFile(r, ok)
    \/ \E r \in Reqs, ok \in BOOLEAN : Download(r, ok)
    \/ \E r \in Reqs, ok \in BOOLEAN : WriteFile(r, ok)
    \/ \E r \in Reqs, ok \in BOOLEAN : Confirm(r, ok)
    \/ \E r \in Reqs, ok \in BOOLEAN : StartSend(r, ok)

Spec == Init /\ [][Next]_vars

\* ------------------------------------------------------------------ claims
\* the handling of request r is over: the handler returned or its promise rejected
Ended(r) == pc[r] \in {"done", "rejected"}

InFlight(r) == pc[r] \notin {"idle", "done", "rejected"}

StagedWritten(r) ==
    \E i \in 1..Len(stagingOps[r]) : stagingOps[r][i].op = "write" /\ stagingOps[r][i].ok

UnlinkReturned(r) == \E i \in 1..Len(stagingOps[r]) : stagingOps[r][i].op = "unlink"

DeleteFailed(r) ==
    \E i \in 1..Len(stagingOps[r]) : stagingOps[r][i].op = "unlink" /\ ~stagingOps[r][i].ok

IsPhotoUpdate(r) == input[r].kind = "webhook" /\ input[r].hasMessage /\ input[r].hasPhoto

IsStartUpdate(r) ==
    /\ input[r].kind = "webhook"
    /\ input[r].hasMessage
    /\ input[r].text = "/start"
    /\ ~input[r].hasPhoto

\* C1: when the handling of a photo update that wrote its staging file ends and
\* no delete call failed, the staging file no longer exists.
C1_WebhookStagingDeleted ==
    \A r \in Reqs :
        IsPhotoUpdate(r) /\ Ended(r) /\ StagedWritten(r) /\ ~DeleteFailed(r)
            => ~Exists(fs, loc[r].staged)

\* C2: when a POST /upload request with a staged file has been answered and no
\* delete call failed, the staged file no longer exists, after a 200 and after
\* a 500 alike.
C2_UploadStagingDeleted ==
    \A r \in Reqs :
        input[r].kind = "upload" /\ pc[r] = "done" /\ StagedWritten(r) /\ ~DeleteFailed(r)
            => ~Exists(fs, loc[r].staged)

\* C3: when the handling of a webhook delivery is over it has been answered with
\* exactly one status: 200 when no error was raised, 500 when one was.
C3_WebhookAnsweredOnce ==
    \A r \in Reqs :
        input[r].kind = "webhook" /\ Ended(r)
            => /\ Len(responses[r]) = 1
               /\ responses[r][1].status = IF raised[r] = NoError THEN 200 ELSE 500

\* C4: when a step of the photo path failed and the update carries a chat, an
\* error message to that chat has been attempted by the time the handling is over.
C4_ErrorReportedToChat ==
    \A r \in Reqs :
        IsPhotoUpdate(r) /\ input[r].chat # NoChat /\ raised[r] # NoError /\ Ended(r)
            => \E i \in 1..Len(sent[r]) :
                   sent[r][i].text = "error" /\ sent[r][i].chat = input[r].chat

\* C5: every write of a publish follows an existence check of the same path in
\* that publish; it carries the revision id the revision fetch returned when the
\* check found the path, and no revision id when the check answered 404.
C5_WriteCarriesShaIffExists ==
    \A r \in Reqs :
        /\ \A i \in 1..Len(repoCalls[r]) :
              repoCalls[r][i].op = "put" =>
                  /\ i > 1
                  /\ repoCalls[r][1].op = "exists"
                  /\ repoCalls[r][1].path = repoCalls[r][i].path
                  /\ repoCalls[r][1].result = "404" =>
                         i = 2 /\ repoCalls[r][i].sha = NoSha
                  /\ repoCalls[r][1].result = "found" =>
                         /\ i = 3
                         /\ repoCalls[r][2].op = "get"
                         /\ repoCalls[r][2].result = "ok"
                         /\ repoCalls[r][i].sha = repoCalls[r][2].sha
                         /\ repoCalls[r][i].sha # NoSha
        /\ pc[r] = "put" =>
              /\ Len(repoCalls[r]) >= 1
              /\ repoCalls[r][1].op = "exists"
              /\ repoCalls[r][1].result = "found" => loc[r].sha # NoSha
              /\ repoCalls[r][1].result = "404" => loc[r].sha = NoSha

\* a write that updated an existing path with its revision id has succeeded
C5_Witness ==
    \E r \in Reqs : \E i \in 1..Len(repoCalls[r]) :
        /\ repoCalls[r][i].op = "put"
        /\ repoCalls[r][i].result = "ok"
        /\ repoCalls[r][i].sha # NoSha

\* C6: a POST /upload request without a file makes no repository call and is
\* answered with status 400 and an error body.
C6_NoFileIs400 ==
    \A r \in Reqs :
        input[r].kind = "upload" /\ input[r].file = NoFile
            => /\ repoCalls[r] = <<>>
               /\ Len(responses[r]) <= 1
               /\ pc[r] = "done" =>
                      /\ Len(responses[r]) = 1
                      /\ responses[r][1].status = 400
                      /\ responses[r][1].body.error # NoError

C6_Witness ==
    \E r \in Reqs : input[r].kind = "upload" /\ input[r].file = NoFile /\ pc[r] = "done"

\* C7: once the delete call of the success path has returned, the response is
\* the success response whether the delete succeeded or failed: 200 with the
\* image URL for /upload, 200 for the webhook.
C7_CleanupFailureNotSurfaced ==
    \A r \in Reqs :
        UnlinkReturned(r)
            => /\ pc[r] = "done"
               /\ Len(responses[r]) = 1
               /\ responses[r][1].status = 200
               /\ responses[r][1].body =
                      IF input[r].kind = "upload"
                        THEN [imageUrl |-> DownloadUrl(loc[r].uploadPath), error |-> NoError]
                        ELSE NoBody

\* an /upload request and a photo update have both been answered after a failed delete
C7_Witness ==
    /\ \E r \in Reqs : input[r].kind = "upload" /\ DeleteFailed(r) /\ Ended(r)
    /\ \E r \in Reqs : input[r].kind = "webhook" /\ DeleteFailed(r) /\ Ended(r)

\* C8: with an invalid repository credential no request is answered.
C8_NoServingWithInvalidCredential ==
    ~credentialValid => \A r \in Reqs : responses[r] = <<>>

\* C9: no two requests in flight hold the same staging path, and the bytes a
\* request publishes are the bytes it staged.
C9_StagingPathsDistinct ==
    \A r1, r2 \in Reqs :
        /\ r1 # r2
        /\ InFlight(r1)
        /\ InFlight(r2)
        /\ loc[r1].staged # NoPath
        /\ loc[r2].staged # NoPath
        => /\ loc[r1].staged # loc[r2].staged
           /\ loc[r1].content \in {NoBytes, r1}

\* C10: a "/start" update without a photo makes no staging write, no staging
\* delete and no repository call; when it carries a chat, its handling makes
\* exactly one send, the help message to that chat.
C10_StartOnlyReplies ==
    \A r \in Reqs :
        IsStartUpdate(r)
            => /\ stagingOps[r] = <<>>
               /\ repoCalls[r] = <<>>
               /\ Len(sent[r]) <= 1
               /\ Ended(r) /\ input[r].chat # NoChat =>
                      /\ Len(sent[r]) = 1
                      /\ sent[r][1].chat = input[r].chat
                      /\ sent[r][1].text = "help"

C10_Witness ==
    \E r \in Reqs :
        /\ IsStartUpdate(r)
        /\ input[r].chat # NoChat
        /\ pc[r] = "done"
        /\ Len(sent[r]) = 1
        /\ sent[r][1].ok

\* C11: when a required configuration value is absent, the port is never bound,
\* no network call is ever made and no request is ever received: the process
\* is still loading or has exited.
C11_MissingConfigExitsBeforeListen ==
    missing # {}
        => /\ ~portBound
           /\ server \in {"loading", "exited"}
           /\ startupCalls = <<>>
           /\ \A r \in Reqs : pc[r] = "idle" /\ repoCalls[r] = <<>> /\ sent[r] = <<>>

\* the process has exited on an absent setting other than the first of the list
C11_Witness ==
    /\ missing # {}
    /\ "GITHUB_TOKEN" \notin missing
    /\ server = "exited"

\* C12: the publish fetches the revision (checkFileExists returned true) only
\* after a success answer, writes without a fetch (it returned false) only after
\* a 404, and after any other failure of the existence query makes no further
\* repository call and ends with the error raised.
C12_OnlyNotFoundIsFalse ==
    \A r \in Reqs :
        /\ pc[r] = "fetchSha" =>
              Len(repoCalls[r]) = 1 /\ repoCalls[r][1].result = "found"
        /\ pc[r] = "put" /\ Len(repoCalls[r]) = 1 => repoCalls[r][1].result = "404"
        /\ Len(repoCalls[r]) >= 2 /\ repoCalls[r][2].op = "put" =>
              repoCalls[r][1].result = "404"
        /\ Len(repoCalls[r]) >= 2 /\ repoCalls[r][2].op = "get" =>
              repoCalls[r][1].result = "found"
        /\ Len(repoCalls[r]) >= 1 /\ repoCalls[r][1].result = "error" =>
              /\ Len(repoCalls[r]) = 1
              /\ Ended(r)
              /\ raised[r] # NoError
              /\ input[r].kind = "upload" =>
                     Len(responses[r]) = 1 /\ responses[r][1].status = 500

\* an existence query has failed with something other than 404
C12_Witness ==
    \E r \in Reqs :
        /\ Len(repoCalls[r]) = 1
        /\ repoCalls[r][1].op = "exists"
        /\ repoCalls[r][1].result = "error"
        /\ Ended(r)

OkPuts(r) ==
    {k \in 1..Len(repoCalls[r]) : repoCalls[r][k].op = "put" /\ repoCalls[r][k].result = "ok"}

\* C13: a confirmation message is sent, and is in flight, only after a write of
\* that update's publish has succeeded; it goes to the originating chat and
\* carries the URL that write returned.  After a failed publish none is sent.
C13_ConfirmationFollowsPublish ==
    \A r \in Reqs :
        /\ \A i \in 1..Len(sent[r]) :
              sent[r][i].text = "uploaded" =>
                  /\ IsPhotoUpdate(r)
                  /\ sent[r][i].chat = input[r].chat
                  /\ sent[r][i].url # NoUrl
                  /\ \E k \in OkPuts(r) : sent[r][i].url = repoCalls[r][k].url
        /\ pc[r] = "confirm" => OkPuts(r) # {}
        /\ IsPhotoUpdate(r) /\ Ended(r) /\ OkPuts(r) = {} =>
              \A i \in 1..Len(sent[r]) : sent[r][i].text # "uploaded"

\* a confirmation has been sent after a successful publish
C13_Witness ==
    \E r \in Reqs : \E i \in 1..Len(sent[r]) :
        sent[r][i].text = "uploaded" /\ sent[r][i].ok /\ OkPuts(r) # {}

\* a repository call that did not succeed (a 404 to the existence query is an answer)
FailedCall(c) ==
    \/ c.result \in {"error", "conflict"}
    \/ c.op = "get" /\ c.result = "404"

\* C14: for a POST /upload request with a file, a failed repository call is the
\* request's last one, and a failure inside the publish (the read of the staged
\* file or a repository call) is answered with 500 and the message of that failure.
C14_PublishFailureIs500 ==
    \A r \in Reqs :
        input[r].kind = "upload" /\ input[r].file # NoFile
            => /\ \A i \in 1..Len(repoCalls[r]) :
                      FailedCall(repoCalls[r][i]) =>
                          /\ i = Len(repoCalls[r])
                          /\ raised[r] = "Request failed"
                          /\ pc[r] = "done"
               /\ raised[r] # NoError =>
                      /\ pc[r] = "done"
                      /\ Len(responses[r]) = 1
                      /\ responses[r][1].status = 500
                      /\ responses[r][1].body.error = raised[r]
                      /\ responses[r][1].body.error =
                             IF repoCalls[r] = <<>> THEN "readFile failed" ELSE "Request failed"
                      /\ repoCalls[r] # <<>> => FailedCall(repoCalls[r][Len(repoCalls[r])])

\* an /upload request has been answered after a failed repository call
C14_Witness ==
    \E r \in Reqs :
        /\ input[r].kind = "upload"
        /\ repoCalls[r] # <<>>
        /\ FailedCall(repoCalls[r][Len(repoCalls[r])])
        /\ pc[r] = "done"
        /\ responses[r][1].status = 500

\* the file-location lookup of request r has been issued
LookupIssued(r) ==
    IsPhotoUpdate(r) /\ pc[r] \notin {"idle", "webhook"} /\ Len(input[r].photo) > 0

\* C15: the file id of the file-location lookup of a photo update is the file
\* id of the last entry of its photo-size list.
C15_LastPhotoSelected ==
    \A r \in Reqs :
        LookupIssued(r) => loc[r].fileId = input[r].photo[Len(input[r].photo)]

\* the lookup of an update with the longest photo-size list has returned
C15_Witness ==
    \E r \in Reqs :
        LookupIssued(r) /\ Len(input[r].photo) = MaxPhotos /\ pc[r] = "download"

\* C16: a webhook update that is neither a photo message nor the "/start"
\* command makes no messaging call, no repository call and no staging
\* operation, raises no error, and is answered with 200 once handled.
C16_OtherUpdatesAreNoOps ==
    \A r \in Reqs :
        /\ input[r].kind = "webhook"
        /\ ~(input[r].hasMessage /\ input[r].hasPhoto)
        /\ ~(input[r].hasMessage /\ input[r].text = "/start")
        => /\ sent[r] = <<>>
           /\ repoCalls[r] = <<>>
           /\ stagingOps[r] = <<>>
           /\ raised[r] = NoError
           /\ pc[r] \in {"webhook", "done"}
           /\ pc[r] = "done" =>
                  responses[r] = <<[status |-> 200, body |-> NoBody]>>

\* an update without message and a text message other than "/start" have been answered
C16_Witness ==
    /\ \E r \in Reqs : input[r].kind = "webhook" /\ ~input[r].hasMessage /\ pc[r] = "done"
    /\ \E r \in Reqs :
          /\ input[r].kind = "webhook"
          /\ input[r].hasMessage
          /\ input[r].text = "hello"
          /\ pc[r] = "done"

\* C17: no write is rejected as a conflict, and no revision fetch fails on a
\* path the existence check reported present.
C17_NoConflictUnderInterleaving ==
    \A r \in Reqs : \A i \in 1..Len(repoCalls[r]) :
        /\ repoCalls[r][i].op = "put" => repoCalls[r][i].result # "conflict"
        /\ repoCalls[r][i].op = "get" => repoCalls[r][i].result # "404"

Puts(r) == {k \in 1..Len(repoCalls[r]) : repoCalls[r][k].op = "put"}

Answered200(r) == \E i \in 1..Len(responses[r]) : responses[r][i].status = 200

\* C18: a photo update answered with 200 has issued exactly one write, which
\* succeeded and published the image of that update, and its confirmation send
\* succeeded; an /upload request answered with 200 has issued exactly one
\* write, which succeeded.
C18_OkMeansPublishedOnce ==
    \A r \in Reqs :
        /\ IsPhotoUpdate(r) /\ Answered200(r) =>
              /\ Cardinality(Puts(r)) = 1
              /\ Puts(r) = OkPuts(r)
              /\ \A k \in Puts(r) : repoCalls[r][k].content = r
              /\ \E i \in 1..Len(sent[r]) : sent[r][i].text = "uploaded" /\ sent[r][i].ok
        /\ input[r].kind = "upload" /\ Answered200(r) =>
              /\ Cardinality(Puts(r)) = 1
              /\ Puts(r) = OkPuts(r)

====
